---- MODULE Spec2Model ----
(***************************************************************************)
(* Model of cHAZe_data_JSON/transform_to_firestore.py: the retailer        *)
(* classifier, the geocode cache and client, the retailer-price aggregator *)
(* and the phase sequence of main.                                         *)
(*                                                                         *)
(* Python strings whose characters the code inspects, concatenates or      *)
(* compares are sequences of one-character strings.  The ligatures of      *)
(* clean_special_chars are the characters "<OE>" and "<oe>".  None is the  *)
(* value None below; a dict is a function, and dict.get is Get.            *)
(***************************************************************************)
EXTENDS Integers, Sequences, FiniteSets, TLC

VARIABLES
    store_name,             \* classifier: the argument of extract_retailer_id
    retailer_id,            \* classifier: its result (<<>> before the call)
    pc3,                    \* aggregator: position in transform_retailer_prices
    inventory,              \* aggregator: the list read from IN_STORE_PRICES
    products,               \* aggregator: the list read from OUT_PRODUCTS
    retailer_prices_map,    \* aggregator: the dict, as its (key, item) pairs in insertion order
    transformed,            \* aggregator: the output list
    denorm_success,         \* aggregator: counter
    denorm_missing,         \* aggregator: counter
    cache,                  \* geocoding: the in-memory cache dict
    requests,               \* geocoding: urlopen calls issued, per address
    last,                   \* geocoding: the last call of get_coordinates_for_store
    failed,                 \* geocoding: address -> status of a failed lookup of this run
    fs,                     \* the files: <<>> when absent, <<content>> when present
    saved,                  \* cache store: the mapping of the last completed save
    outcome,                \* cache store: the last operation and how it ended
    pc,                     \* main: the phase about to run
    ran,                    \* main: the phases started, in order
    written,                \* main: the files written by this run, in order
    stores,                 \* transform_stores: the list read from IN_STORES
    idx,                    \* transform_stores: stores processed so far
    api_calls,              \* transform_stores: counter
    cache_hits,             \* transform_stores: counter
    cache_io,               \* transform_stores: cache loads and saves, in order
    raised,                 \* main: the file a FileNotFoundError names ("" when none)
    removed                 \* environment: files removed by another process

clVars   == <<store_name, retailer_id>>
prVars   == <<pc3, inventory, products, retailer_prices_map, transformed,
              denorm_success, denorm_missing>>
geoVars  == <<requests, last, failed>>
csVars   == <<saved, outcome>>
mainVars == <<pc, ran, written, stores, idx, api_calls, cache_hits, cache_io, raised,
              removed>>
vars     == <<clVars, prVars, geoVars, csVars, mainVars, cache, fs>>

-----------------------------------------------------------------------------
(* Bounds of the model *)

MaxParts == 2        \* fragments in a name given to the classifier
MaxItems == 2        \* raw records in the store-price export
MaxStores == 2       \* stores in the store export
MaxRemovals == 1     \* files another process removes during a run
MaxLookups == 1      \* lookups between the saves and loads of the cache store

-----------------------------------------------------------------------------
(* Python values and strings *)

None == <<"None">>

Get(d, k, default) == IF k \in DOMAIN d THEN d[k] ELSE default

\* Code points in increasing order: str comparison is by code point.
CodePoints ==
    <<"\t", " ", ",", "1", "2", "3", "5", "7", "9",
      "A", "B", "C", "D", "E", "G", "I", "L", "M", "O", "P", "R", "S", "X",
      "_",
      "a", "b", "c", "d", "e", "f", "g", "h", "i", "k", "l", "m", "n", "o",
      "p", "r", "s", "t", "u", "w", "x", "y",
      "<OE>", "<oe>">>

Ord(c) == CHOOSE i \in 1..Len(CodePoints) : CodePoints[i] = c

UpperCase == <<"A", "B", "C", "D", "E", "G", "I", "L", "M", "O", "P", "R", "S", "X", "<OE>">>
LowerCase == <<"a", "b", "c", "d", "e", "g", "i", "l", "m", "o", "p", "r", "s", "x", "<oe>">>

\* str.lower, one character
LowerChar(c) ==
    IF \E i \in 1..Len(UpperCase) : UpperCase[i] = c
    THEN LowerCase[CHOOSE i \in 1..Len(UpperCase) : UpperCase[i] = c]
    ELSE c

\* str.upper, one character (used to state case-independence)
UpperChar(c) ==
    IF \E i \in 1..Len(LowerCase) : LowerCase[i] = c
    THEN UpperCase[CHOOSE i \in 1..Len(LowerCase) : LowerCase[i] = c]
    ELSE c

Lower(s) == [i \in 1..Len(s) |-> LowerChar(s[i])]
Upper(s) == [i \in 1..Len(s) |-> UpperChar(s[i])]

Whitespace == {" ", "\t"}

\* str.strip
Strip(s) ==
    LET keep == {i \in 1..Len(s) : s[i] \notin Whitespace}
    IN  IF keep = {} THEN <<>>
        ELSE SubSeq(s, CHOOSE i \in keep : \A j \in keep : i <= j,
                       CHOOSE i \in keep : \A j \in keep : i >= j)

\* pat in s
Contains(s, pat) ==
    \E i \in 0..(Len(s) - Len(pat)) : SubSeq(s, i + 1, i + Len(pat)) = pat

\* a < b for str
RECURSIVE StrLess(_, _)
StrLess(a, b) ==
    IF b = <<>> THEN FALSE
    ELSE IF a = <<>> THEN TRUE
    ELSE IF a[1] # b[1] THEN Ord(a[1]) < Ord(b[1])
    ELSE StrLess(Tail(a), Tail(b))

-----------------------------------------------------------------------------
(* Retailer classifier *)

S_migros  == <<"m", "i", "g", "r", "o", "s">>
S_coop    == <<"c", "o", "o", "p">>
S_denner  == <<"d", "e", "n", "n", "e", "r">>
S_aldi    == <<"a", "l", "d", "i">>
S_aligro  == <<"a", "l", "i", "g", "r", "o">>
S_other   == <<"o", "t", "h", "e", "r">>
S_unknown == <<"u", "n", "k", "n", "o", "w", "n">>

\* The if/elif chain with two branches exchanged.
extract_retailer_id_swapped(name) ==
    IF name = <<>> THEN S_unknown
    ELSE LET name_lower == Strip(Lower(name))
         IN  IF Contains(name_lower, S_coop) THEN S_coop
             ELSE IF Contains(name_lower, S_migros) THEN S_migros
             ELSE IF Contains(name_lower, S_denner) THEN S_denner
             ELSE IF Contains(name_lower, S_aldi) THEN S_aldi
             ELSE IF Contains(name_lower, S_aligro) THEN S_aligro
             ELSE S_other

extract_retailer_id(name) ==
    IF name = <<>> THEN S_unknown
    ELSE LET name_lower == Strip(Lower(name))
         IN  IF Contains(name_lower, S_migros) THEN S_migros
             ELSE IF Contains(name_lower, S_coop) THEN S_coop
             ELSE IF Contains(name_lower, S_denner) THEN S_denner
             ELSE IF Contains(name_lower, S_aldi) THEN S_aldi
             ELSE IF Contains(name_lower, S_aligro) THEN S_aligro
             ELSE S_other

-----------------------------------------------------------------------------
(* Phase 3: retailer-level prices *)

\* Raw store-price records of the export.
S_coop_12 == <<"c", "o", "o", "p", "_", "1", "2">>
S_coop_77 == <<"c", "o", "o", "p", "_", "7", "7">>
S_Aldi_3  == <<"A", "l", "d", "i", "_", "3">>
S_kiosk_5 == <<"k", "i", "o", "s", "k", "_", "5">>
S_p1 == <<"p", "1">>
S_p2 == <<"p", "2">>
S_p9 == <<"p", "9">>

StoreIds   == {S_coop_12, S_coop_77, S_Aldi_3, <<>>}
ProductIds == {S_p1, S_p2, S_p9}

RawItems ==
    {[store_id |-> s, product_id |-> p, price |-> <<"2.50">>, currency |-> <<"CHF">>,
      in_stock |-> TRUE, discount_active |-> FALSE] : s \in StoreIds, p \in ProductIds}
    \cup
    {[store_id |-> s, product_id |-> p, price |-> <<"9.99">>, currency |-> <<"EUR">>,
      in_stock |-> FALSE, discount_active |-> TRUE] : s \in StoreIds, p \in ProductIds}
    \cup
    {[store_id |-> S_kiosk_5, product_id |-> S_p1],
     [product_id |-> S_p2, price |-> <<"9.99">>],
     [store_id |-> S_coop_12, price |-> <<"2.50">>, in_stock |-> TRUE]}

RECURSIVE ListsOf(_, _)
ListsOf(S, n) ==
    IF n = 0 THEN {<<>>}
    ELSE LET shorter == ListsOf(S, n - 1)
         IN  shorter \cup {Append(l, x) : l \in {m \in shorter : Len(m) = n - 1}, x \in S}

\* Product records of the phase-1 output.
P_milk ==
    [product_id |-> S_p1, name |-> <<"M", "i", "l", "k">>,
     category |-> <<"D", "a", "i", "r", "y">>, image_url |-> <<"u", "r", "l">>,
     product_type |-> <<"m", "i", "l", "k">>, keywords |-> << <<"m", "i", "l", "k">> >>,
     general_unit |-> <<"l">>]
P_milk_again ==
    [product_id |-> S_p1, name |-> <<"M", "i", "l", "k", "2">>, keywords |-> <<>>]
P_bread ==
    [product_id |-> S_p2, name |-> <<"B", "r", "e", "a", "d">>, keywords |-> <<>>]

ProductLists == {<<P_milk, P_bread>>, <<P_milk, P_milk_again>>}

\* product_map = {p['product_id']: p for p in products}: a later product replaces
\* an earlier one with the same identifier.
ProductMap(ps) ==
    [id \in {ps[i].product_id : i \in 1..Len(ps)} |->
        ps[CHOOSE i \in 1..Len(ps) :
              /\ ps[i].product_id = id
              /\ \A j \in 1..Len(ps) : ps[j].product_id = id => j <= i]]

\* key = (retailer_id, product_id) of a raw record
ItemKey(item) ==
    <<extract_retailer_id(Get(item, "store_id", <<>>)), Get(item, "product_id", <<>>)>>

InMap(map, key) == \E i \in 1..Len(map) : map[i].key = key

\* The insertion with the test for the key left out: the last record wins.
GroupInsert_overwrite(map, key, item) ==
    IF InMap(map, key)
    THEN [i \in 1..Len(map) |-> IF map[i].key = key THEN [key |-> key, item |-> item]
                                                    ELSE map[i]]
    ELSE Append(map, [key |-> key, item |-> item])

\* if key not in retailer_prices_map: retailer_prices_map[key] = item
GroupInsert(map, key, item) ==
    IF InMap(map, key) THEN map ELSE Append(map, [key |-> key, item |-> item])

\* The fallback branch keeping the keywords of some product.
BuildItem_stale(key, item, product_map) ==
    LET found == key[2] \in DOMAIN product_map
        base == [doc_id |-> key[1] \o <<"_">> \o key[2],
                 retailer_id |-> key[1],
                 product_id |-> key[2],
                 price |-> Get(item, "price", None),
                 currency |-> Get(item, "currency", <<"CHF">>),
                 in_stock |-> Get(item, "in_stock", FALSE),
                 discount_active |-> Get(item, "discount_active", FALSE)]
        denorm ==
            IF found
            THEN LET product == product_map[key[2]]
                 IN  [product_name |-> Get(product, "name", None),
                      product_image |-> Get(product, "image_url", None),
                      category |-> Get(product, "category", None),
                      product_type |-> Get(product, "product_type", None),
                      keywords |-> Get(product, "keywords", <<>>),
                      unit |-> Get(product, "general_unit", None)]
            ELSE [product_name |-> None, product_image |-> None, category |-> None,
                  product_type |-> None, keywords |-> << <<"m", "i", "l", "k">> >>,
                  unit |-> None]
    IN  base @@ denorm @@ [last_updated |-> <<"now">>]

\* The document built from one (key, item) pair of the map.
BuildItem(key, item, product_map) ==
    LET found == key[2] \in DOMAIN product_map
        base == [doc_id |-> key[1] \o <<"_">> \o key[2],
                 retailer_id |-> key[1],
                 product_id |-> key[2],
                 price |-> Get(item, "price", None),
                 currency |-> Get(item, "currency", <<"CHF">>),
                 in_stock |-> Get(item, "in_stock", FALSE),
                 discount_active |-> Get(item, "discount_active", FALSE)]
        denorm ==
            IF found
            THEN LET product == product_map[key[2]]
                 IN  [product_name |-> Get(product, "name", None),
                      product_image |-> Get(product, "image_url", None),
                      category |-> Get(product, "category", None),
                      product_type |-> Get(product, "product_type", None),
                      keywords |-> Get(product, "keywords", <<>>),
                      unit |-> Get(product, "general_unit", None)]
            ELSE [product_name |-> None, product_image |-> None, category |-> None,
                  product_type |-> None, keywords |-> <<>>, unit |-> None]
    IN  base @@ denorm @@ [last_updated |-> <<"now">>]

\* (x['retailer_id'], x['product_id']) < (y['retailer_id'], y['product_id'])
KeyLess(x, y) ==
    \/ StrLess(x.retailer_id, y.retailer_id)
    \/ x.retailer_id = y.retailer_id /\ StrLess(x.product_id, y.product_id)

\* list.sort is stable: x goes after the elements that are not greater.
RECURSIVE InsertSorted(_, _)
InsertSorted(l, x) ==
    IF l = <<>> THEN <<x>>
    ELSE IF KeyLess(x, l[1]) THEN <<x>> \o l
    ELSE <<l[1]>> \o InsertSorted(Tail(l), x)

RECURSIVE SortedFrom(_, _)
SortedFrom(done, rest) ==
    IF rest = <<>> THEN done ELSE SortedFrom(InsertSorted(done, rest[1]), Tail(rest))

\* The list left in the order of the map.
SortByKey_unsorted(l) == l

\* transformed.sort(key=lambda x: (x['retailer_id'], x['product_id']))
SortByKey(l) == SortedFrom(<<>>, l)

-----------------------------------------------------------------------------
(* Files, and the state of the parts a specification does not exercise *)

Files ==
    {"IN_PRODUCTS", "IN_STORES", "IN_STORE_PRICES", "IN_PRODUCT_KEYWORDS",
     "OUT_PRODUCTS", "OUT_STORES", "OUT_RETAILERS", "OUT_DISCOUNTS",
     "OUT_RETAILER_PRICES", "GEOCODE_CACHE_FILE"}

NoFiles == [f \in Files |-> <<>>]

Exists(f) == fs[f] # <<>>

EmptyDict == <<>>

DictSet(d, k, v) == [x \in DOMAIN d \cup {k} |-> IF x = k THEN v ELSE d[x]]

NoCall == [called |-> FALSE]

ClIdle == store_name = <<>> /\ retailer_id = <<>>

PrIdle ==
    /\ pc3 = <<"idle", 0>>
    /\ inventory = <<>>
    /\ products = <<>>
    /\ retailer_prices_map = <<>>
    /\ transformed = <<>>
    /\ denorm_success = 0
    /\ denorm_missing = 0

GeoIdle == requests = EmptyDict /\ last = NoCall /\ failed = EmptyDict

CsIdle == saved = <<>> /\ outcome = [op |-> "none"]

MainIdle ==
    /\ pc = "idle"
    /\ ran = <<>>
    /\ written = <<>>
    /\ stores = <<>>
    /\ idx = 0
    /\ api_calls = 0
    /\ cache_hits = 0
    /\ cache_io = <<>>
    /\ raised = ""
    /\ removed = 0

-----------------------------------------------------------------------------
(* Specification of the classifier: one call on a name *)

Fragments ==
    {S_migros, S_coop, S_denner, S_aldi, S_aligro,
     <<"C", "O", "O", "P">>, <<"M", "i">>, <<"g", "r", "o", "s">>,
     <<"A", "L">>, <<"D", "I">>, <<" ">>, <<"x">>}

RECURSIVE NamesOf(_)
NamesOf(n) ==
    IF n = 0 THEN {<<>>}
    ELSE LET shorter == NamesOf(n - 1)
         IN  shorter \cup {a \o f : a \in shorter, f \in Fragments}

InitClassifier ==
    /\ store_name \in NamesOf(MaxParts)
    /\ retailer_id = <<>>
    /\ PrIdle /\ GeoIdle /\ CsIdle /\ MainIdle
    /\ cache = EmptyDict
    /\ fs = NoFiles

Classify ==
    /\ retailer_id = <<>>
    /\ retailer_id' = extract_retailer_id(store_name)
    /\ UNCHANGED <<store_name, prVars, geoVars, csVars, mainVars, cache, fs>>

NextClassifier == Classify

SpecClassifier == InitClassifier /\ [][NextClassifier]_vars

-----------------------------------------------------------------------------
(* Specification of the aggregator: transform_retailer_prices after its reads *)

InitPrices ==
    /\ inventory \in ListsOf(RawItems, MaxItems)
    /\ products \in ProductLists
    /\ pc3 = <<"group", 1>>
    /\ retailer_prices_map = <<>>
    /\ transformed = <<>>
    /\ denorm_success = 0
    /\ denorm_missing = 0
    /\ ClIdle /\ GeoIdle /\ CsIdle /\ MainIdle
    /\ cache = EmptyDict
    /\ fs = [NoFiles EXCEPT !["IN_STORE_PRICES"] = <<inventory>>,
                            !["OUT_PRODUCTS"] = <<products>>]

\* for item in inventory: one iteration
P3Group ==
    /\ pc3[1] = "group"
    /\ pc3[2] <= Len(inventory)
    /\ LET item == inventory[pc3[2]]
       IN  retailer_prices_map' = GroupInsert(retailer_prices_map, ItemKey(item), item)
    /\ pc3' = <<"group", pc3[2] + 1>>
    /\ UNCHANGED <<inventory, products, transformed, denorm_success, denorm_missing,
                   clVars, geoVars, csVars, mainVars, cache, fs>>

\* the loop over inventory is exhausted
P3GroupDone ==
    /\ pc3[1] = "group"
    /\ pc3[2] > Len(inventory)
    /\ pc3' = <<"build", 1>>
    /\ UNCHANGED <<inventory, products, retailer_prices_map, transformed, denorm_success,
                   denorm_missing, clVars, geoVars, csVars, mainVars, cache, fs>>

\* for (retailer_id, product_id), item in retailer_prices_map.items(): one iteration
P3Build ==
    /\ pc3[1] = "build"
    /\ pc3[2] <= Len(retailer_prices_map)
    /\ LET e == retailer_prices_map[pc3[2]]
           product_map == ProductMap(products)
       IN  /\ transformed' = Append(transformed, BuildItem(e.key, e.item, product_map))
           /\ IF e.key[2] \in DOMAIN product_map
              THEN denorm_success' = denorm_success + 1 /\ UNCHANGED denorm_missing
              ELSE denorm_missing' = denorm_missing + 1 /\ UNCHANGED denorm_success
    /\ pc3' = <<"build", pc3[2] + 1>>
    /\ UNCHANGED <<inventory, products, retailer_prices_map,
                   clVars, geoVars, csVars, mainVars, cache, fs>>

\* the sort and the write of OUT_RETAILER_PRICES
P3SortWrite ==
    /\ pc3[1] = "build"
    /\ pc3[2] > Len(retailer_prices_map)
    /\ transformed' = SortByKey(transformed)
    /\ fs' = [fs EXCEPT !["OUT_RETAILER_PRICES"] = <<transformed'>>]
    /\ pc3' = <<"done", 0>>
    /\ UNCHANGED <<inventory, products, retailer_prices_map, denorm_success, denorm_missing,
                   clVars, geoVars, csVars, mainVars, cache>>

NextPrices == P3Group \/ P3GroupDone \/ P3Build \/ P3SortWrite

SpecPrices == InitPrices /\ [][NextPrices]_vars

-----------------------------------------------------------------------------
(* Phase 2: geocoding with a cache *)

\* str.split(): the words between runs of whitespace
RECURSIVE SplitFrom(_, _, _)
SplitFrom(s, word, words) ==
    IF s = <<>> THEN (IF word = <<>> THEN words ELSE Append(words, word))
    ELSE IF s[1] \in Whitespace
         THEN SplitFrom(Tail(s), <<>>, IF word = <<>> THEN words ELSE Append(words, word))
         ELSE SplitFrom(Tail(s), Append(word, s[1]), words)

Split(s) == SplitFrom(s, <<>>, <<>>)

\* sep.join(parts)
RECURSIVE Join(_, _)
Join(sep, parts) ==
    IF parts = <<>> THEN <<>>
    ELSE IF Len(parts) = 1 THEN parts[1]
    ELSE parts[1] \o sep \o Join(sep, Tail(parts))

normalize_address(store) ==
    LET parts == <<Strip(Get(store, "address", <<>>)),
                   Strip(Get(store, "location_text", <<>>))>>
        NonEmpty(p) == p # <<>>
        full_address == Join(<<",", " ">>, SelectSeq(parts, NonEmpty))
    IN  Join(<<" ">>, Split(full_address))

Zero == <<"0.0">>
ZeroCoords == [latitude |-> Zero, longitude |-> Zero]
OK == <<"OK">>

\* What urlopen and json.loads give for one request.
Responses ==
    {[kind |-> "transport"],
     [kind |-> "json", data |-> [status |-> <<"ZERO_RESULTS">>, results |-> <<>>]],
     [kind |-> "json", data |-> [status |-> <<"REQUEST_DENIED">>]],
     [kind |-> "json", data |-> [results |-> <<>>]],
     [kind |-> "json", data |-> [status |-> OK, results |-> <<>>]],
     [kind |-> "json", data |-> [status |-> OK, results |->
         <<[lat |-> <<"46.95">>, lng |-> <<"7.44">>, location_type |-> <<"ROOFTOP">>]>>]],
     [kind |-> "json", data |-> [status |-> OK, results |->
         <<[lat |-> <<"47.37">>, lng |-> <<"8.54">>]>>]]}

\* The result of one request, given what urlopen and json.loads gave for it.
geocode_address(address, api_key, response) ==
    IF response.kind = "transport"
    THEN [latitude |-> Zero, longitude |-> Zero, status |-> <<"error">>]
    ELSE LET data == response.data
             status == Get(data, "status", None)
         IN  IF status # OK \/ Get(data, "results", <<>>) = <<>>
             THEN [latitude |-> Zero, longitude |-> Zero, status |-> status]
             ELSE LET result == data.results[1]
                  IN  [latitude |-> result.lat,
                       longitude |-> result.lng,
                       status |-> OK,
                       accuracy |-> Get(result, "location_type", <<"UNKNOWN">>)]

\* if api_key:
Truthy(api_key) == api_key # None /\ api_key # <<>>

\* Only a successful lookup is stored.
get_coordinates_for_store_forgetful(store, api_key, c, response) ==
    LET address == normalize_address(store)
    IN  IF address = <<>>
        THEN [coords |-> ZeroCoords, cache |-> c, requested |-> FALSE]
        ELSE IF address \in DOMAIN c
        THEN [coords |-> [latitude |-> Get(c[address], "latitude", Zero),
                          longitude |-> Get(c[address], "longitude", Zero)],
              cache |-> c, requested |-> FALSE]
        ELSE IF Truthy(api_key)
        THEN LET result == geocode_address(address, api_key, response)
             IN  [coords |-> [latitude |-> Get(result, "latitude", Zero),
                              longitude |-> Get(result, "longitude", Zero)],
                  cache |-> IF result.status = OK THEN DictSet(c, address, result) ELSE c,
                  requested |-> TRUE]
        ELSE [coords |-> ZeroCoords, cache |-> c, requested |-> FALSE]

\* A cached entry is looked up again when a credential is given.
get_coordinates_for_store_refresh(store, api_key, c, response) ==
    LET address == normalize_address(store)
    IN  IF address = <<>>
        THEN [coords |-> ZeroCoords, cache |-> c, requested |-> FALSE]
        ELSE IF address \in DOMAIN c /\ ~Truthy(api_key)
        THEN [coords |-> [latitude |-> Get(c[address], "latitude", Zero),
                          longitude |-> Get(c[address], "longitude", Zero)],
              cache |-> c, requested |-> FALSE]
        ELSE IF Truthy(api_key)
        THEN LET result == geocode_address(address, api_key, response)
             IN  [coords |-> [latitude |-> Get(result, "latitude", Zero),
                              longitude |-> Get(result, "longitude", Zero)],
                  cache |-> DictSet(c, address, result),
                  requested |-> TRUE]
        ELSE [coords |-> ZeroCoords, cache |-> c, requested |-> FALSE]

\* The default of a lookup without a credential stored as an entry.
get_coordinates_for_store_storing(store, api_key, c, response) ==
    LET address == normalize_address(store)
    IN  IF address = <<>>
        THEN [coords |-> ZeroCoords, cache |-> c, requested |-> FALSE]
        ELSE IF address \in DOMAIN c
        THEN [coords |-> [latitude |-> Get(c[address], "latitude", Zero),
                          longitude |-> Get(c[address], "longitude", Zero)],
              cache |-> c, requested |-> FALSE]
        ELSE IF Truthy(api_key)
        THEN LET result == geocode_address(address, api_key, response)
             IN  [coords |-> [latitude |-> Get(result, "latitude", Zero),
                              longitude |-> Get(result, "longitude", Zero)],
                  cache |-> DictSet(c, address, result),
                  requested |-> TRUE]
        ELSE [coords |-> ZeroCoords,
              cache |-> DictSet(c, address, [latitude |-> Zero, longitude |-> Zero,
                                             status |-> <<"error">>]),
              requested |-> FALSE]

\* The coordinates returned, the cache afterwards, and whether urlopen was called.
get_coordinates_for_store(store, api_key, c, response) ==
    LET address == normalize_address(store)
    IN  IF address = <<>>
        THEN [coords |-> ZeroCoords, cache |-> c, requested |-> FALSE]
        ELSE IF address \in DOMAIN c
        THEN [coords |-> [latitude |-> Get(c[address], "latitude", Zero),
                          longitude |-> Get(c[address], "longitude", Zero)],
              cache |-> c, requested |-> FALSE]
        ELSE IF Truthy(api_key)
        THEN LET result == geocode_address(address, api_key, response)
             IN  [coords |-> [latitude |-> Get(result, "latitude", Zero),
                              longitude |-> Get(result, "longitude", Zero)],
                  cache |-> DictSet(c, address, result),
                  requested |-> TRUE]
        ELSE [coords |-> ZeroCoords, cache |-> c, requested |-> FALSE]

\* Stores of the export.
A_rue  == <<"R", "u", "e", " ", "1">>
A_rue_spaced == <<" ", "R", "u", "e", " ", "\t", "1">>
A_bahnhof == <<"B", "a", "h", "n", "h", "o", "f", " ", "2">>
L_bern == <<"B", "e", "r", "n">>
L_bern_spaced == <<"B", "e", "r", "n", " ">>
K_rue_bern == <<"R", "u", "e", " ", "1", ",", " ", "B", "e", "r", "n">>

StoreRecords ==
    {[store_id |-> S_coop_12, name |-> <<"C", "o", "o", "p">>,
      address |-> A_rue, location_text |-> L_bern, geo_point |-> <<"g">>],
     [store_id |-> S_coop_77, name |-> <<"C", "O", "O", "P">>,
      address |-> A_rue_spaced, location_text |-> L_bern_spaced],
     [store_id |-> S_Aldi_3, name |-> <<"A", "l", "d", "i">>, address |-> A_bahnhof],
     [name |-> <<>>, address |-> <<" ">>]}

ApiKeys == {None, <<>>, <<"KEY">>}

\* Entries a cache file of an earlier run holds.
E_bern == [latitude |-> <<"46.95">>, longitude |-> <<"7.44">>, status |-> OK,
           accuracy |-> <<"ROOFTOP">>]
E_failed == [latitude |-> Zero, longitude |-> Zero, status |-> <<"ZERO_RESULTS">>]
E_bare == [status |-> OK]

LoadedCaches ==
    {EmptyDict,
     [a \in {K_rue_bern} |-> E_bern],
     [a \in {A_bahnhof} |-> E_bare],
     [a \in {K_rue_bern, A_bahnhof} |-> IF a = A_bahnhof THEN E_failed ELSE E_bern]}

\* The status a response reports: "error" for a transport failure.
ReportedStatus(response) ==
    IF response.kind = "transport" THEN <<"error">>
    ELSE Get(response.data, "status", None)

-----------------------------------------------------------------------------
(* Specification of the geocoding client: calls of get_coordinates_for_store *)
(* on one cache mapping                                                      *)

InitGeo ==
    /\ cache \in LoadedCaches
    /\ requests = EmptyDict
    /\ last = NoCall
    /\ failed = EmptyDict
    /\ ClIdle /\ PrIdle /\ CsIdle /\ MainIdle
    /\ fs = NoFiles

GeoCall(store, api_key, response) ==
    LET address == normalize_address(store)
        r == get_coordinates_for_store(store, api_key, cache, response)
    IN  /\ cache' = r.cache
        /\ requests' = IF r.requested
                       THEN DictSet(requests, address, Get(requests, address, 0) + 1)
                       ELSE requests
        /\ failed' = IF r.requested /\ ReportedStatus(response) # OK
                     THEN DictSet(failed, address, ReportedStatus(response))
                     ELSE failed
        /\ last' = [called |-> TRUE, address |-> address, api_key |-> api_key,
                    hit |-> address \in DOMAIN cache, requested |-> r.requested,
                    coords |-> r.coords]
        /\ UNCHANGED <<clVars, prVars, csVars, mainVars, fs>>

NextGeo == \E store \in StoreRecords, api_key \in ApiKeys, response \in Responses :
               GeoCall(store, api_key, response)

SpecGeo == InitGeo /\ [][NextGeo]_vars

-----------------------------------------------------------------------------
(* Geocode cache store: the cache file as JSON *)

\* The floats of the model; every other value but None is a str.
Numbers == {Zero, <<"46.95">>, <<"7.44">>, <<"47.37">>, <<"8.54">>}

\* None written as an empty string.
JsonValue_blank(v) ==
    IF v = None THEN [t |-> "string", text |-> ""]
    ELSE IF v \in Numbers THEN [t |-> "number", text |-> v[1]]
    ELSE [t |-> "string", text |-> v[1]]

\* json.dump of a value: null, a number or a string literal
JsonValue(v) ==
    IF v = None THEN [t |-> "null", text |-> "null"]
    ELSE IF v \in Numbers THEN [t |-> "number", text |-> v[1]]
    ELSE [t |-> "string", text |-> v[1]]

\* json.load of a literal
PyValue(tok) == IF tok.t = "null" THEN None ELSE <<tok.text>>

\* json.dump of one cache entry: its members, name and literal
RECURSIVE DumpMembers(_, _)
DumpMembers(e, names) ==
    IF names = {} THEN <<>>
    ELSE LET n == CHOOSE x \in names : TRUE
         IN  <<[name |-> n, value |-> JsonValue(e[n])]>> \o DumpMembers(e, names \ {n})

\* json.dump of the cache: one member per address (a dict compares equal whatever
\* the order of its members, which the function does not keep)
RECURSIVE DumpEntries(_, _)
DumpEntries(c, keys) ==
    IF keys = {} THEN <<>>
    ELSE LET k == CHOOSE x \in keys : TRUE
         IN  <<[name |-> k, value |-> DumpMembers(c[k], DOMAIN c[k])]>>
             \o DumpEntries(c, keys \ {k})

Dumps(c) == DumpEntries(c, DOMAIN c)

\* json.load of an object: a later member replaces an earlier one of the same name
RECURSIVE LoadMembers(_, _)
LoadMembers(members, d) ==
    IF members = <<>> THEN d
    ELSE LoadMembers(Tail(members), DictSet(d, members[1].name, PyValue(members[1].value)))

RECURSIVE LoadEntries(_, _)
LoadEntries(members, d) ==
    IF members = <<>> THEN d
    ELSE LoadEntries(Tail(members),
                     DictSet(d, members[1].name, LoadMembers(members[1].value, EmptyDict)))

Loads(doc) == LoadEntries(doc, EmptyDict)

\* A file that holds the JSON of a cache; one that json.load rejects; one that
\* open() rejects.
JsonFile(c) == <<[kind |-> "json", doc |-> Dumps(c)]>>
MalformedFile == <<[kind |-> "malformed"]>>
UnreadableFile == <<[kind |-> "unreadable"]>>

\* load_geocode_cache: the mapping returned for the state of the cache file
load_geocode_cache(file) ==
    IF file = <<>> THEN EmptyDict
    ELSE IF file[1].kind = "json" THEN Loads(file[1].doc)
    ELSE EmptyDict

\* How a write of the cache file can end: done; open() raises and the file is as it
\* was; json.dump raises after open() truncated the file.
SaveOutcomes == {"ok", "open_fails", "dump_fails"}

\* save_geocode_cache: the cache file afterwards
save_geocode_cache(c, file, io) ==
    IF io = "ok" THEN JsonFile(c)
    ELSE IF io = "open_fails" THEN file
    ELSE MalformedFile

-----------------------------------------------------------------------------
(* Specification of the cache store: saves and loads of the cache file, with *)
(* lookups that change the mapping in memory between them                    *)

\* A failed lookup without a status, and a successful one.
SomeResponses ==
    {[kind |-> "json", data |-> [results |-> <<>>]],
     [kind |-> "json", data |-> [status |-> OK, results |->
         <<[lat |-> <<"47.37">>, lng |-> <<"8.54">>]>>]]}

RECURSIVE SumOver(_, _)
SumOver(f, keys) ==
    IF keys = {} THEN 0
    ELSE LET k == CHOOSE x \in keys : TRUE IN f[k] + SumOver(f, keys \ {k})

\* urlopen calls issued so far
TotalRequests == SumOver(requests, DOMAIN requests)

CacheFiles ==
    {<<>>, MalformedFile, UnreadableFile} \cup {JsonFile(c) : c \in LoadedCaches}

InitCache ==
    /\ cache \in LoadedCaches
    /\ fs \in {[NoFiles EXCEPT !["GEOCODE_CACHE_FILE"] = file] : file \in CacheFiles}
    /\ saved = <<>>
    /\ outcome = [op |-> "none"]
    /\ ClIdle /\ PrIdle /\ GeoIdle /\ MainIdle

CsSave(io) ==
    /\ fs' = [fs EXCEPT !["GEOCODE_CACHE_FILE"] =
                 save_geocode_cache(cache, fs["GEOCODE_CACHE_FILE"], io)]
    /\ saved' = IF io = "ok" THEN <<cache>>
                ELSE IF io = "open_fails" THEN saved
                ELSE <<>>
    /\ outcome' = [op |-> "save", io |-> io]
    /\ UNCHANGED <<cache, clVars, prVars, geoVars, mainVars>>

CsLoad ==
    /\ cache' = load_geocode_cache(fs["GEOCODE_CACHE_FILE"])
    /\ outcome' = [op |-> "load", result |-> cache']
    /\ UNCHANGED <<saved, fs, clVars, prVars, geoVars, mainVars>>

NextCache ==
    \/ \E io \in SaveOutcomes : CsSave(io)
    \/ CsLoad
    \/ /\ TotalRequests < MaxLookups
       /\ \E store \in StoreRecords, response \in SomeResponses :
              GeoCall(store, <<"KEY">>, response)

SpecCache == InitCache /\ [][NextCache]_vars

-----------------------------------------------------------------------------
(* Phases 1 and 4: text cleaning *)

\* clean_special_chars: the ligatures replaced by two letters
RECURSIVE clean_special_chars(_)
clean_special_chars(text) ==
    IF text = <<>> THEN <<>>
    ELSE (IF text[1] = "<OE>" THEN <<"O", "e">>
          ELSE IF text[1] = "<oe>" THEN <<"o", "e">>
          ELSE <<text[1]>>) \o clean_special_chars(Tail(text))

\* d with d[k] cleaned when the key is there and its value is not empty
CleanField(d, k) ==
    IF k \in DOMAIN d /\ Truthy(d[k])
    THEN [x \in DOMAIN d |-> IF x = k THEN clean_special_chars(d[k]) ELSE d[x]]
    ELSE d

\* transform_products: one product of the loop
TransformProduct(product, keywords_map) ==
    LET cleaned == CleanField(CleanField(product, "name"), "category")
        product_id == Get(product, "product_id", None)
        keywords == IF Truthy(product_id) /\ product_id \in DOMAIN keywords_map
                    THEN keywords_map[product_id]
                    ELSE <<>>
    IN  [x \in DOMAIN cleaned \cup {"keywords"} |->
            IF x = "keywords" THEN keywords ELSE cleaned[x]]

-----------------------------------------------------------------------------
(* The phases as main runs them *)

Range(seq) == {seq[i] : i \in 1..Len(seq)}

\* The product export, the keyword mapping, the store-price export, an output of
\* an earlier run and the discounts file.
RawProducts ==
    <<[product_id |-> S_p1, name |-> <<"<OE>", "u", "f">>,
       category |-> <<"D", "a", "i", "r", "y">>, general_unit |-> <<"l">>],
      [product_id |-> S_p2, name |-> <<"B", "r", "e", "a", "d">>]>>

KeywordsFile == [id \in {S_p1} |-> << <<"e", "g", "g">> >>]

PricesExport ==
    <<[store_id |-> S_coop_77, product_id |-> S_p2, price |-> <<"9.99">>,
       currency |-> <<"EUR">>, in_stock |-> FALSE, discount_active |-> TRUE],
      [store_id |-> S_coop_12, product_id |-> S_p1, price |-> <<"2.50">>,
       currency |-> <<"CHF">>, in_stock |-> TRUE, discount_active |-> FALSE],
      [store_id |-> S_coop_77, product_id |-> S_p1, price |-> <<"9.99">>],
      [store_id |-> S_Aldi_3, product_id |-> S_p9, price |-> <<"2.50">>]>>

StaleProducts == <<P_bread>>

DiscountsFile ==
    <<[product_name |-> <<"<oe>", "u", "f">>, discount_percentage |-> <<"1">>],
      [discount_percentage |-> <<"2">>]>>

\* The retailer identifiers of the catalog that create_retailers writes.
RetailerCatalog == <<S_migros, S_coop, S_denner, S_aldi, S_aligro, S_other>>

\* The files each phase requires, and the file it writes.
Required(phase) ==
    IF phase = "phase1" THEN {"IN_PRODUCTS"}
    ELSE IF phase = "phase2" THEN {"IN_STORES"}
    ELSE IF phase = "phase3" THEN {"IN_STORE_PRICES", "OUT_PRODUCTS"}
    ELSE {}

Output(phase) ==
    IF phase = "phase0" THEN "OUT_RETAILERS"
    ELSE IF phase = "phase1" THEN "OUT_PRODUCTS"
    ELSE IF phase = "phase2" THEN "OUT_STORES"
    ELSE IF phase = "phase3" THEN "OUT_RETAILER_PRICES"
    ELSE "OUT_DISCOUNTS"

\* The entry of a phase: the files it requires that are absent at that moment.
Started(phase) == [phase |-> phase, absent |-> {f \in Required(phase) : ~Exists(f)}]

\* raise FileNotFoundError: main ends, nothing else changes
Raise(phase, file) ==
    /\ pc' = "aborted"
    /\ raised' = file
    /\ ran' = Append(ran, Started(phase))
    /\ UNCHANGED <<written, stores, idx, api_calls, cache_hits, cache_io, removed,
                   cache, fs, clVars, prVars, geoVars, csVars>>

InitMain ==
    /\ fs \in {[f \in Files |->
                  IF f = "IN_PRODUCTS" THEN in_products
                  ELSE IF f = "IN_PRODUCT_KEYWORDS" THEN keywords
                  ELSE IF f = "IN_STORES" THEN in_stores
                  ELSE IF f = "IN_STORE_PRICES" THEN in_prices
                  ELSE IF f = "OUT_PRODUCTS" THEN out_products
                  ELSE IF f = "OUT_DISCOUNTS" THEN discounts
                  ELSE IF f = "GEOCODE_CACHE_FILE" THEN cache_file
                  ELSE <<>>] :
               in_products \in {<<>>, <<RawProducts>>},
               keywords \in {<<>>, <<KeywordsFile>>},
               in_stores \in {<<>>} \cup {<<l>> : l \in ListsOf(StoreRecords, MaxStores)},
               in_prices \in {<<>>, <<PricesExport>>},
               out_products \in {<<>>, <<StaleProducts>>},
               discounts \in {<<>>, <<DiscountsFile>>},
               cache_file \in {<<>>, MalformedFile,
                               JsonFile([a \in {K_rue_bern} |-> E_bern]),
                               JsonFile([a \in {K_rue_bern, A_bahnhof} |->
                                            IF a = A_bahnhof THEN E_bare ELSE E_bern])}}
    /\ pc = "phase0"
    /\ ran = <<>>
    /\ written = <<>>
    /\ stores = <<>>
    /\ idx = 0
    /\ api_calls = 0
    /\ cache_hits = 0
    /\ cache_io = <<>>
    /\ raised = ""
    /\ removed = 0
    /\ cache = EmptyDict
    /\ ClIdle /\ PrIdle /\ GeoIdle /\ CsIdle

\* create_retailers
Phase0 ==
    /\ pc = "phase0"
    /\ fs' = [fs EXCEPT !["OUT_RETAILERS"] = <<RetailerCatalog>>]
    /\ written' = Append(written, "OUT_RETAILERS")
    /\ ran' = Append(ran, Started("phase0"))
    /\ pc' = "phase1"
    /\ UNCHANGED <<stores, idx, api_calls, cache_hits, cache_io, raised, removed,
                   cache, clVars, prVars, geoVars, csVars>>

\* transform_products
Phase1 ==
    /\ pc = "phase1"
    /\ IF ~Exists("IN_PRODUCTS")
       THEN Raise("phase1", "IN_PRODUCTS")
       ELSE LET keywords_map == IF Exists("IN_PRODUCT_KEYWORDS")
                                THEN fs["IN_PRODUCT_KEYWORDS"][1]
                                ELSE EmptyDict
                raw == fs["IN_PRODUCTS"][1]
                out == [i \in 1..Len(raw) |-> TransformProduct(raw[i], keywords_map)]
            IN  /\ fs' = [fs EXCEPT !["OUT_PRODUCTS"] = <<out>>]
                /\ written' = Append(written, "OUT_PRODUCTS")
                /\ ran' = Append(ran, Started("phase1"))
                /\ pc' = "phase2"
                /\ UNCHANGED <<stores, idx, api_calls, cache_hits, cache_io, raised,
                               removed, cache, clVars, prVars, geoVars, csVars>>

\* transform_stores, to the start of its loop: the stores read, the cache loaded
P2Start ==
    /\ pc = "phase2"
    /\ IF ~Exists("IN_STORES")
       THEN Raise("phase2", "IN_STORES")
       ELSE /\ stores' = fs["IN_STORES"][1]
            /\ cache' = load_geocode_cache(fs["GEOCODE_CACHE_FILE"])
            /\ cache_io' = Append(cache_io, "load")
            /\ api_calls' = 0
            /\ cache_hits' = 0
            /\ idx' = 0
            /\ ran' = Append(ran, Started("phase2"))
            /\ pc' = "phase2_loop"
            /\ UNCHANGED <<written, raised, removed, fs, clVars, prVars, geoVars, csVars>>

\* The store after one iteration of the loop, given the coordinates found.
StoreOut(store, coords) ==
    LET keys == (DOMAIN store \ {"geo_point"}) \cup {"retailer_id", "coordinates", "store_id"}
    IN  [x \in keys |->
            IF x = "retailer_id" THEN extract_retailer_id(Get(store, "name", <<>>))
            ELSE IF x = "coordinates" THEN [latitude |-> coords.latitude,
                                            longitude |-> coords.longitude]
            ELSE IF x = "store_id" /\ "store_id" \notin DOMAIN store
                 THEN S_unknown \o <<"_">>
                      \o Lower(Get(store, "name", <<"s", "t", "o", "r", "e">>))
            ELSE store[x]]

\* The loop passing a credential to get_coordinates_for_store.
P2Store_keyed ==
    /\ pc = "phase2_loop"
    /\ idx < Len(stores)
    /\ \E response \in Responses :
          LET store == stores[idx + 1]
              address == normalize_address(store)
              r == get_coordinates_for_store(store, <<"KEY">>, cache, response)
          IN  /\ IF address \in DOMAIN cache
                 THEN cache_hits' = cache_hits + 1 /\ UNCHANGED api_calls
                 ELSE api_calls' = api_calls + 1 /\ UNCHANGED cache_hits
              /\ cache' = r.cache
              /\ requests' = IF r.requested
                             THEN DictSet(requests, address, Get(requests, address, 0) + 1)
                             ELSE requests
              /\ stores' = [stores EXCEPT ![idx + 1] = StoreOut(store, r.coords)]
    /\ idx' = idx + 1
    /\ UNCHANGED <<pc, ran, written, cache_io, raised, removed, fs, last, failed,
                   clVars, prVars, csVars>>

\* transform_stores: one iteration of the loop over the stores
P2Store ==
    /\ pc = "phase2_loop"
    /\ idx < Len(stores)
    /\ \E response \in Responses :
          LET store == stores[idx + 1]
              address == normalize_address(store)
              r == get_coordinates_for_store(store, None, cache, response)
          IN  /\ IF address \in DOMAIN cache
                 THEN cache_hits' = cache_hits + 1 /\ UNCHANGED api_calls
                 ELSE api_calls' = api_calls + 1 /\ UNCHANGED cache_hits
              /\ cache' = r.cache
              /\ requests' = IF r.requested
                             THEN DictSet(requests, address, Get(requests, address, 0) + 1)
                             ELSE requests
              /\ stores' = [stores EXCEPT ![idx + 1] = StoreOut(store, r.coords)]
    /\ idx' = idx + 1
    /\ UNCHANGED <<pc, ran, written, cache_io, raised, removed, fs, last, failed,
                   clVars, prVars, csVars>>

\* transform_stores after its loop: OUT_STORES written
P2Write ==
    /\ pc = "phase2_loop"
    /\ idx = Len(stores)
    /\ fs' = [fs EXCEPT !["OUT_STORES"] = <<stores>>]
    /\ written' = Append(written, "OUT_STORES")
    /\ pc' = "phase3"
    /\ UNCHANGED <<ran, stores, idx, api_calls, cache_hits, cache_io, raised, removed,
                   cache, clVars, prVars, geoVars, csVars>>

\* The grouping loop and the build loop of transform_retailer_prices, run through.
RECURSIVE GroupAll(_, _)
GroupAll(items, map) ==
    IF items = <<>> THEN map
    ELSE GroupAll(Tail(items), GroupInsert(map, ItemKey(items[1]), items[1]))

BuildAll(map, product_map) ==
    [i \in 1..Len(map) |-> BuildItem(map[i].key, map[i].item, product_map)]

\* transform_retailer_prices from its reads to its write
Phase3Run ==
    LET inv == fs["IN_STORE_PRICES"][1]
        prods == fs["OUT_PRODUCTS"][1]
        product_map == ProductMap(prods)
        map == GroupAll(inv, <<>>)
        out == SortByKey(BuildAll(map, product_map))
    IN  /\ inventory' = inv
        /\ products' = prods
        /\ retailer_prices_map' = map
        /\ transformed' = out
        /\ denorm_success' = Cardinality({i \in 1..Len(map) : map[i].key[2] \in DOMAIN product_map})
        /\ denorm_missing' = Cardinality({i \in 1..Len(map) : map[i].key[2] \notin DOMAIN product_map})
        /\ pc3' = <<"done", 0>>
        /\ fs' = [fs EXCEPT !["OUT_RETAILER_PRICES"] = <<out>>]
        /\ written' = Append(written, "OUT_RETAILER_PRICES")
        /\ ran' = Append(ran, Started("phase3"))
        /\ pc' = "phase4"
        /\ UNCHANGED <<stores, idx, api_calls, cache_hits, cache_io, raised, removed,
                       cache, clVars, geoVars, csVars>>

\* The phase with no test for the product output: an empty list stands in for it.
Phase3_unchecked ==
    /\ pc = "phase3"
    /\ IF ~Exists("IN_STORE_PRICES")
       THEN Raise("phase3", "IN_STORE_PRICES")
       ELSE IF ~Exists("OUT_PRODUCTS")
       THEN /\ fs' = [fs EXCEPT !["OUT_RETAILER_PRICES"] = <<>>]
            /\ ran' = Append(ran, Started("phase3"))
            /\ pc' = "phase4"
            /\ UNCHANGED <<written, stores, idx, api_calls, cache_hits, cache_io, raised,
                           removed, cache, clVars, prVars, geoVars, csVars>>
       ELSE Phase3Run

\* transform_retailer_prices
Phase3 ==
    /\ pc = "phase3"
    /\ IF ~Exists("IN_STORE_PRICES")
       THEN Raise("phase3", "IN_STORE_PRICES")
       ELSE IF ~Exists("OUT_PRODUCTS")
       THEN Raise("phase3", "OUT_PRODUCTS")
       ELSE Phase3Run

\* transform_discounts
Phase4 ==
    /\ pc = "phase4"
    /\ IF ~Exists("OUT_DISCOUNTS")
       THEN UNCHANGED <<fs, written>>
       ELSE LET discounts == fs["OUT_DISCOUNTS"][1]
                out == [i \in 1..Len(discounts) |-> CleanField(discounts[i], "product_name")]
            IN  /\ fs' = [fs EXCEPT !["OUT_DISCOUNTS"] = <<out>>]
                /\ written' = Append(written, "OUT_DISCOUNTS")
    /\ ran' = Append(ran, Started("phase4"))
    /\ pc' = "done"
    /\ UNCHANGED <<stores, idx, api_calls, cache_hits, cache_io, raised, removed,
                   cache, clVars, prVars, geoVars, csVars>>

\* Another process removes the one file that a phase writes and a later phase reads.
EnvRemove ==
    /\ pc \notin {"done", "aborted"}
    /\ removed < MaxRemovals
    /\ Exists("OUT_PRODUCTS")
    /\ fs' = [fs EXCEPT !["OUT_PRODUCTS"] = <<>>]
    /\ removed' = removed + 1
    /\ UNCHANGED <<pc, ran, written, stores, idx, api_calls, cache_hits, cache_io, raised,
                   cache, clVars, prVars, geoVars, csVars>>

NextMain == Phase0 \/ Phase1 \/ P2Start \/ P2Store \/ P2Write \/ Phase3 \/ Phase4 \/ EnvRemove

SpecMain == InitMain /\ [][NextMain]_vars

-----------------------------------------------------------------------------
(* Claims about the classifier, under SpecClassifier *)

Priority == <<S_migros, S_coop, S_denner, S_aldi, S_aligro>>

\* The first identifier, in priority order, that is a substring of n; "other" if none is.
FirstMatch(n) ==
    LET hits == {i \in 1..Len(Priority) : Contains(n, Priority[i])}
    IN  IF hits = {} THEN S_other
        ELSE Priority[CHOOSE i \in hits : \A j \in hits : i <= j]

\* C4 as stated: the result is the first identifier in the order migros, coop,
\* denner, aldi, aligro that is a substring of the lower-cased, trimmed name, and
\* "other" when none matches or the name is empty.
C4_AsStated ==
    retailer_id # <<>> => retailer_id = FirstMatch(Strip(Lower(store_name)))

\* C4 amended: for a non-empty name the result is the first identifier in the
\* priority order that is a substring of the lower-cased, trimmed name, "other"
\* when none matches, and the same for the upper-cased and the lower-cased name;
\* for the empty name the result is "unknown".
C4_Classifier ==
    retailer_id # <<>> =>
        /\ store_name = <<>> => retailer_id = S_unknown
        /\ store_name # <<>> =>
              /\ retailer_id = FirstMatch(Strip(Lower(store_name)))
              /\ extract_retailer_id(Upper(store_name)) = retailer_id
              /\ extract_retailer_id(Lower(store_name)) = retailer_id

\* A name with capitals that holds two patterns got the one of higher priority.
C4_Witness ==
    /\ retailer_id = S_migros
    /\ Contains(Lower(store_name), S_coop)
    /\ store_name # Lower(store_name)

-----------------------------------------------------------------------------
(* Claims about the aggregator, under SpecPrices *)

InputKeys == {ItemKey(inventory[i]) : i \in 1..Len(inventory)}

\* The first record of the input with the key.
FirstWith(key) ==
    inventory[CHOOSE i \in 1..Len(inventory) :
                 /\ ItemKey(inventory[i]) = key
                 /\ \A j \in 1..Len(inventory) : ItemKey(inventory[j]) = key => i <= j]

OutKey(t) == <<t.retailer_id, t.product_id>>

\* C1: the output holds exactly one record for each (retailer, product) key of the
\* input and none for another key; its price, currency, in_stock and
\* discount_active are those of the first input record with the key (the defaults
\* of the code where that record has no such field), and its doc_id is
\* retailer_product.
C1_FirstSeenWins ==
    pc3[1] = "done" =>
        /\ \A k \in InputKeys :
              Cardinality({j \in 1..Len(transformed) : OutKey(transformed[j]) = k}) = 1
        /\ \A j \in 1..Len(transformed) :
              LET t == transformed[j]
              IN  /\ OutKey(t) \in InputKeys
                  /\ t.doc_id = t.retailer_id \o <<"_">> \o t.product_id
                  /\ LET first == FirstWith(OutKey(t))
                     IN  /\ t.price = Get(first, "price", None)
                         /\ t.currency = Get(first, "currency", <<"CHF">>)
                         /\ t.in_stock = Get(first, "in_stock", FALSE)
                         /\ t.discount_active = Get(first, "discount_active", FALSE)

\* The scenario of the specification: coop_12 then coop_77 for p1, with other values.
C1_Witness ==
    /\ pc3[1] = "done"
    /\ Len(inventory) = 2
    /\ Get(inventory[1], "store_id", <<>>) = S_coop_12
    /\ Get(inventory[2], "store_id", <<>>) = S_coop_77
    /\ Get(inventory[1], "product_id", <<>>) = S_p1
    /\ Get(inventory[2], "product_id", <<>>) = S_p1
    /\ Get(inventory[1], "price", None) = <<"2.50">>
    /\ Get(inventory[2], "price", None) = <<"9.99">>
    /\ Len(transformed) = 1
    /\ transformed[1].doc_id = <<"c", "o", "o", "p", "_", "p", "1">>
    /\ transformed[1].price = <<"2.50">>

ProductKnown(id) == \E i \in 1..Len(products) : products[i].product_id = id

\* C7: a record whose product identifier is not in the product map yields, without
\* an error, a record whose denormalized fields are all absent, and it counts in
\* the missing counter and not in the success counter.
C7_MissingProduct ==
    /\ \A j \in 1..Len(transformed) :
          ~ProductKnown(transformed[j].product_id) =>
              /\ transformed[j].product_name = None
              /\ transformed[j].product_image = None
              /\ transformed[j].category = None
              /\ transformed[j].product_type = None
              /\ transformed[j].keywords = <<>>
              /\ transformed[j].unit = None
    /\ denorm_missing =
          Cardinality({j \in 1..Len(transformed) : ~ProductKnown(transformed[j].product_id)})
    /\ denorm_success =
          Cardinality({j \in 1..Len(transformed) : ProductKnown(transformed[j].product_id)})
    /\ pc3[1] = "done" =>
          \A i \in 1..Len(inventory) :
              \E j \in 1..Len(transformed) : OutKey(transformed[j]) = ItemKey(inventory[i])

\* The run ended with a record of an unknown product beside one of a known product.
C7_Witness ==
    /\ pc3[1] = "done"
    /\ denorm_missing = 1
    /\ denorm_success = 1
    /\ \E j \in 1..Len(transformed) : transformed[j].product_id = S_p9

\* C8: the list written is in ascending order of (retailer identifier, product
\* identifier); no two records share the pair, so the order of the list is fixed
\* by the set of its records.
C8_Sorted ==
    pc3[1] = "done" =>
        /\ fs["OUT_RETAILER_PRICES"] = <<transformed>>
        /\ \A j \in 1..(Len(transformed) - 1) :
              /\ ~KeyLess(transformed[j + 1], transformed[j])
              /\ OutKey(transformed[j]) # OutKey(transformed[j + 1])
        /\ {transformed[j] : j \in 1..Len(transformed)} =
              {BuildItem(k, FirstWith(k), ProductMap(products)) : k \in InputKeys}

\* The map held its two keys in descending order and the list written is ascending.
C8_Witness ==
    /\ pc3[1] = "done"
    /\ Len(retailer_prices_map) = 2
    /\ StrLess(retailer_prices_map[2].key[1], retailer_prices_map[1].key[1])
    /\ KeyLess(transformed[1], transformed[2])

-----------------------------------------------------------------------------
(* Claims about the geocoding client, under SpecGeo *)

\* C2: after a lookup with a credential of a non-empty address missing from the
\* cache that the service answered with a non-OK status (or that failed in
\* transport), the cache holds for the address latitude 0.0, longitude 0.0 and the
\* reported status ("error" for a transport failure); every later call for the
\* address issues no request and returns the zero coordinates.
C2_FailureIsCached ==
    /\ \A a \in DOMAIN failed :
          /\ a \in DOMAIN cache
          /\ cache[a] = [latitude |-> Zero, longitude |-> Zero, status |-> failed[a]]
          /\ requests[a] = 1
    /\ (last.called /\ last.address \in DOMAIN failed /\ last.hit) =>
          /\ ~last.requested
          /\ last.coords = ZeroCoords

\* A call with a credential found the entry of a lookup that failed in this run.
C2_Witness ==
    /\ last.called
    /\ last.address \in DOMAIN failed
    /\ last.hit
    /\ Truthy(last.api_key)

\* C5: a call of get_coordinates_for_store removes no key of the cache and changes
\* the value of none; it inserts at most one key, which was absent.
C5_AppendOnly ==
    [][/\ \A a \in DOMAIN cache : a \in DOMAIN cache' /\ cache'[a] = cache[a]
       /\ Cardinality(DOMAIN cache' \ DOMAIN cache) <= 1]_vars

\* A lookup inserted an entry beside one the cache already held.
C5_Witness ==
    /\ last.called
    /\ last.requested
    /\ Cardinality(DOMAIN cache) = 2

\* C6: a call without a credential (None or '') of an address missing from the
\* cache issues no request, returns latitude 0.0 and longitude 0.0 and leaves the
\* cache as it was.
C6_NoCredential ==
    [][(last'.called /\ ~Truthy(last'.api_key) /\ ~last'.hit) =>
          /\ cache' = cache
          /\ requests' = requests
          /\ ~last'.requested
          /\ last'.coords = ZeroCoords]_vars

\* A call without a credential missed a cache that holds another address.
C6_Witness ==
    /\ last.called
    /\ ~Truthy(last.api_key)
    /\ ~last.hit
    /\ last.address # <<>>
    /\ cache # EmptyDict
    /\ last.address \notin DOMAIN cache

-----------------------------------------------------------------------------
(* Claims about the cache store, under SpecCache *)

\* C9: a load that follows a completed save, with no write of the cache file
\* between them, returns a mapping equal to the one saved; a load of a cache file
\* that is absent, unreadable or not JSON returns the empty mapping.
C9_RoundTrip ==
    outcome.op = "load" =>
        /\ saved # <<>> => outcome.result = saved[1]
        /\ (fs["GEOCODE_CACHE_FILE"] = <<>> \/ fs["GEOCODE_CACHE_FILE"][1].kind # "json") =>
              outcome.result = EmptyDict

\* A mapping with the entry of a failed lookup (status None) beside one of an
\* earlier run was saved and then loaded.
C9_Witness ==
    /\ outcome.op = "load"
    /\ saved # <<>>
    /\ \E a \in DOMAIN saved[1] : Get(saved[1][a], "status", OK) = None
    /\ \E a \in DOMAIN saved[1] : Get(saved[1][a], "status", None) = OK

-----------------------------------------------------------------------------
(* Claims about the phases, under SpecMain *)

\* C3: in every run of transform_stores that completes, the cache file is loaded
\* at the start and the cache is saved to it after all stores are processed.
C3_LoadThenSave ==
    "OUT_STORES" \in Range(written) => cache_io = <<"load", "save">>

PhaseOrder == <<"phase0", "phase1", "phase2", "phase3", "phase4">>

\* C10: a phase that starts with a file it requires absent (the product export,
\* the store export, the store-price export, or for phase 3 the product output)
\* raises, naming an absent file, before writing its output file, and no later
\* phase runs; phases run in the order of main, and phase 3 runs only after
\* phase 1 has written the product output.
C10_MissingInputIsFatal ==
    /\ \A i \in 1..Len(ran) :
          /\ ran[i].phase = PhaseOrder[i]
          /\ ran[i].absent # {} =>
                /\ i = Len(ran)
                /\ pc = "aborted"
                /\ raised \in ran[i].absent
                /\ Output(ran[i].phase) \notin Range(written)
          /\ ran[i].phase = "phase3" => "OUT_PRODUCTS" \in Range(written)
    /\ pc = "aborted" => ran # <<>> /\ ran[Len(ran)].absent # {}

\* Phase 1 wrote the product output, it was gone when phase 3 started, and the
\* run ended there without a price list.
C10_Witness ==
    /\ pc = "aborted"
    /\ raised = "OUT_PRODUCTS"
    /\ "OUT_PRODUCTS" \in Range(written)
    /\ "OUT_STORES" \in Range(written)
    /\ "OUT_RETAILER_PRICES" \notin Range(written)
    /\ Len(ran) = 4

-----------------------------------------------------------------------------
(* Claim about transform_stores as main runs it, under SpecMain *)

====
